---- MODULE Spec2Model ----
(***************************************************************************)
(* A model of app.py, the DeepJazz music generator: the heart-rate to      *)
(* parameter mapping, the temperature sampler, the autoregressive          *)
(* generation loop of generate_music, the MIDI track assembly of           *)
(* sequence_to_midi, and the button handler of main.                       *)
(*                                                                         *)
(* Conventions.                                                            *)
(*  - A temperature is held in tenths: 5 is 0.5, 8 is 0.8, 12 is 1.2.      *)
(*  - Python's None is the empty sequence None, Some(v) is <<v>>.          *)
(*  - numpy's global generator is a deterministic generator whose state    *)
(*    `rng` starts anywhere in 0..RngModulus-1; every draw reads the       *)
(*    state and advances it.  Which index a draw yields is decided by the  *)
(*    state alone: sample adds 1e-7 to every probability, so every index   *)
(*    of the distribution has a positive probability whenever the          *)
(*    temperature is not zero.                                             *)
(***************************************************************************)
EXTENDS Integers, Sequences, FiniteSets, TLC

\* ------------------------------------------------------------ constants of the program

\* generate_music: input sequence length expected by the model
maxlen == 50
\* generate_music: MIDI note range 0-127
vocab_size == 128
\* sequence_to_midi: tokens at or above this pitch are not added
MidiPitchLimit == 128
\* sequence_to_midi: default tempo, track, channel, duration, volume
DefaultTempo == 120
track == 0
channel == 0
duration == 1
volume == 100
\* main: st.number_input(min_value, max_value)
MinHeartRate == 30
MaxHeartRate == 200

\* ------------------------------------------------------------ bounds of the model

\* number of states of the random generator
RngModulus == 3
\* longest horizon of a direct call of generate_music
MaxHorizon == 3
\* longest note sequence handed to sequence_to_midi on its own
MaxNotes == 3
\* largest magnitude of a temperature (in tenths) handed to sample on its own
MaxTemp == 12

\* heart rates entered in main: the ends of the range, both sides of both thresholds, 110
HeartRates == {30, 59, 60, 100, 101, 110, 200}
\* output lengths of the predictor: the vocabulary, and a malformed longer one
OutLens == {vocab_size, vocab_size + 1}
\* temperatures (tenths) of a direct call of generate_music
DirectTemps == {0, 8}
\* tokens of the note sequences handed to sequence_to_midi on its own
MidiTokens == {-1, 0, 60, 64, 127, 128, 200}

None == <<>>
Some(v) == <<v>>

\* ------------------------------------------------------------ state

VARIABLES
    pc,               \* position of the program
    caller,           \* who called generate_music: "main", "direct", or "none"
    heart_rate,       \* main: the number entered
    model,            \* the loaded predictor: None, or Some([out_len |-> n])
    temperature,      \* generation parameter, in tenths
    sequence_length,  \* generation parameter: the horizon
    seed_arg,         \* generate_music: the seed argument, None or Some(sequence)
    seed,             \* generate_music: the context window
    generated,        \* generate_music: the running output
    i,                \* generate_music: number of completed loop iterations
    x_pred,           \* generate_music: the encoded input of the call in flight, or None
    calls,            \* number of predictor calls issued
    returned,         \* the value generate_music returned: None or Some(sequence)
    note_sequence,    \* sequence_to_midi: its argument
    midi,             \* the assembled MIDIFile: None or Some(track record)
    saved,            \* main: the MIDI file was written
    offered,          \* main: the download button was shown
    error,            \* the exception that ended the run, or "none"
    rng,              \* state of numpy's global random generator
    preds,            \* sample: the distribution handed to it
    outcome,          \* sample: what the call did, None or Some(record)
    seed0,            \* history: the window before the first step
    sampled           \* history: the tokens sampled so far, in order

vars == <<pc, caller, heart_rate, model, temperature, sequence_length, seed_arg, seed,
          generated, i, x_pred, calls, returned, note_sequence, midi, saved, offered,
          error, rng, preds, outcome, seed0, sampled>>

\* ------------------------------------------------------------ get_music_params_from_heart_rate

\* the mapper with the upper threshold taken inclusively (>= 100)
get_music_params_inclusive(h) ==
    IF h >= 100 THEN <<5, 100>>
    ELSE IF h < 60 THEN <<12, 50>>
    ELSE <<8, 75>>

\* <<temperature in tenths, sequence_length>>
get_music_params_from_heart_rate(h) ==
    IF h > 100 THEN <<5, 100>>
    ELSE IF h < 60 THEN <<12, 50>>
    ELSE <<8, 75>>

\* ------------------------------------------------------------ the random generator

NextRng(r) == (r + 1) % RngModulus

\* The index in 0..n-1 a draw over n categories yields in generator state r; the
\* states spread over the whole range, both ends included.
Draw(r, n) == (r * (n - 1)) \div (RngModulus - 1)

\* the random seed with the upper end of the range drawn too (0..vocab_size)
RandomSeed_Inclusive(r) ==
    [t \in 1..maxlen |-> Draw((r + t - 1) % RngModulus, vocab_size + 1)]

\* np.random.randint(0, vocab_size, size=(maxlen,)): maxlen draws, one per element
RandomSeed(r) == [t \in 1..maxlen |-> Draw((r + t - 1) % RngModulus, vocab_size)]

\* ------------------------------------------------------------ sample

\* The outcomes of sample(preds, temperature) in generator state r.  A temperature
\* other than zero, positive or negative, rescales the log-probabilities into a valid
\* distribution and an index is drawn.  A zero temperature divides by zero: the
\* rescaled vector is NaN, which numpy's multinomial either rejects (ValueError) or
\* draws from regardless, depending on its version.
sample(p, temp, r) ==
    LET drawn == [ok |-> TRUE, index |-> Draw(r, Len(p)), error |-> "none"]
        raised == [ok |-> FALSE, index |-> -1, error |-> "ValueError"]
    IN IF temp = 0 THEN {drawn, raised} ELSE {drawn}

\* ------------------------------------------------------------ the predictor

\* model.predict(x_pred)[0]: a distribution of the predictor's output length
Predict(m, x) == [k \in 1..m.out_len |-> 1]

\* ------------------------------------------------------------ generate_music

\* The one-hot input x_pred of shape (maxlen, vocab_size), as the set of hot indices
\* of each row.  numpy wraps a negative index once.
OneHot(s) ==
    [t \in 1..maxlen |-> IF t <= Len(s) THEN {s[t] % vocab_size} ELSE {}]

\* x_pred[0, t, note] = 1.0 is an IndexError for a row past maxlen or a note outside
\* -vocab_size..vocab_size-1
EncodeRaises(s) ==
    \/ Len(s) > maxlen
    \/ \E t \in 1..Len(s) : s[t] < -vocab_size \/ s[t] >= vocab_size

\* the window left as it was, the new token not pushed
Slide_Stale(s, next_index) == s

\* seed = np.append(seed[1:], next_index)
Slide(s, next_index) == Append(SubSeq(s, 2, Len(s)), next_index)

\* the new token put in front of the running output
Extend_Prepend(g, next_index) == <<next_index>> \o g

\* generated.append(next_index)
Extend(g, next_index) == Append(g, next_index)

\* the failure swallowed and the notes generated so far returned
OnPredictRaise_Partial(g) == Some(g)

\* What a failed predictor call leaves for the caller: the exception propagates and
\* nothing is returned.
OnPredictRaise(g) == None

\* a seed of n tokens that are pairwise different from their neighbours
PatternSeed(n) == [t \in 1..n |-> 60 + (t % 12)]

\* seeds a caller passes: too short, with a negative token, with a token past the
\* vocabulary, of the window size, and too long (all of them non-empty)
CallerSeeds ==
    {<<60, 62>>, <<60, -1>>, <<60, 200>>, PatternSeed(maxlen), PatternSeed(maxlen + 1)}

\* The body of generate_music up to the loop.
Enter(who, m, temp, len, arg) ==
    LET s == IF arg = None THEN RandomSeed(rng) ELSE arg[1]
    IN /\ caller' = who
       /\ model' = Some(m)
       /\ temperature' = temp
       /\ sequence_length' = len
       /\ seed_arg' = arg
       /\ seed' = s
       /\ seed0' = s
       /\ generated' = s
       /\ sampled' = <<>>
       /\ i' = 0
       /\ rng' = IF arg = None THEN (rng + maxlen) % RngModulus ELSE rng
       /\ pc' = "loop"


\* for i in range(sequence_length): the one-hot encoding raises IndexError
EncodeFails ==
    /\ pc = "loop"
    /\ i < sequence_length
    /\ EncodeRaises(seed)
    /\ pc' = "error"
    /\ error' = "IndexError"
    /\ UNCHANGED <<caller, heart_rate, model, temperature, sequence_length, seed_arg,
                   seed, generated, i, x_pred, calls, returned, note_sequence, midi,
                   saved, offered, rng, preds, outcome, seed0, sampled>>

\* for i in range(sequence_length): encode the window and issue model.predict
CallPredict ==
    /\ pc = "loop"
    /\ i < sequence_length
    /\ ~EncodeRaises(seed)
    /\ x_pred' = Some(OneHot(seed))
    /\ calls' = calls + 1
    /\ pc' = "predicting"
    /\ UNCHANGED <<caller, heart_rate, model, temperature, sequence_length, seed_arg,
                   seed, generated, i, returned, note_sequence, midi, saved, offered,
                   error, rng, preds, outcome, seed0, sampled>>

\* model.predict returns: sample the next index, append it, slide the window
PredictReturn ==
    /\ pc = "predicting"
    /\ LET p == Predict(model[1], x_pred[1])
       IN /\ preds' = p
          /\ \E o \in sample(p, temperature, rng) :
                /\ outcome' = Some(o)
                /\ IF o.ok
                   THEN /\ generated' = Extend(generated, o.index)
                        /\ seed' = Slide(seed, o.index)
                        /\ sampled' = Append(sampled, o.index)
                        /\ i' = i + 1
                        /\ x_pred' = None
                        /\ pc' = "loop"
                        /\ UNCHANGED error
                   ELSE /\ pc' = "error"
                        /\ error' = o.error
                        /\ UNCHANGED <<generated, seed, sampled, i, x_pred>>
    /\ rng' = NextRng(rng)
    /\ UNCHANGED <<caller, heart_rate, model, temperature, sequence_length, seed_arg,
                   calls, returned, note_sequence, midi, saved, offered, seed0>>

\* model.predict raises: nothing in generate_music or main catches it
PredictRaise ==
    /\ pc = "predicting"
    /\ pc' = "error"
    /\ error' = "PredictorFailure"
    /\ returned' = OnPredictRaise(generated)
    /\ UNCHANGED <<caller, heart_rate, model, temperature, sequence_length, seed_arg,
                   seed, generated, i, x_pred, calls, note_sequence, midi, saved,
                   offered, rng, preds, outcome, seed0, sampled>>

\* the loop is exhausted: return generated
Return ==
    /\ pc = "loop"
    /\ i >= sequence_length
    /\ returned' = Some(generated)
    /\ pc' = "returned"
    /\ UNCHANGED <<caller, heart_rate, model, temperature, sequence_length, seed_arg,
                   seed, generated, i, x_pred, calls, note_sequence, midi, saved,
                   offered, error, rng, preds, outcome, seed0, sampled>>

\* generate_music(model, temperature, sequence_length, seed) called on its own
DirectCall ==
    /\ pc = "idle"
    /\ \E n \in OutLens, temp \in DirectTemps, len \in 0..MaxHorizon,
          arg \in {None} \cup {Some(s) : s \in CallerSeeds} :
            Enter("direct", [out_len |-> n], temp, len, arg)
    /\ UNCHANGED <<heart_rate, x_pred, calls, returned, note_sequence, midi, saved,
                   offered, error, preds, outcome>>

\* ------------------------------------------------------------ sequence_to_midi

\* the time advanced for a dropped token too
NoteStep_SlotForDropped(st, note) ==
    IF 0 <= note /\ note < MidiPitchLimit
    THEN [notes |-> Append(st.notes,
                           [track |-> track, channel |-> channel, pitch |-> note,
                            time |-> st.time, duration |-> duration, volume |-> volume]),
          time |-> st.time + duration]
    ELSE [notes |-> st.notes, time |-> st.time + duration]

\* one iteration of `for note in note_sequence`; st is [notes, time]
NoteStep(st, note) ==
    IF 0 <= note /\ note < MidiPitchLimit
    THEN [notes |-> Append(st.notes,
                           [track |-> track, channel |-> channel, pitch |-> note,
                            time |-> st.time, duration |-> duration, volume |-> volume]),
          time |-> st.time + duration]
    ELSE st

\* `for note in note_sequence` over positions lo..hi, from left to right, starting in
\* st.  The range is walked in two halves, the second starting where the first ended.
\* TLC evaluates an operator's argument only when it is read: the test of st.time
\* (a time is never negative) makes it finish the first half before it starts the
\* second, which keeps the evaluation shallow for long sequences.
RECURSIVE NoteLoop(_, _, _, _)
NoteLoop(ns, lo, hi, st) ==
    IF st.time < 0 \/ lo > hi THEN st
    ELSE IF lo = hi THEN NoteStep(st, ns[lo])
    ELSE LET mid == (lo + hi) \div 2
         IN NoteLoop(ns, mid + 1, hi, NoteLoop(ns, lo, mid, st))

\* the MIDIFile: its tempo marker and its notes in the order they were added
sequence_to_midi(ns, tempo) ==
    [tempo |-> tempo,
     notes |-> NoteLoop(ns, 1, Len(ns), [notes |-> <<>>, time |-> 0]).notes]

\* ------------------------------------------------------------ main

\* "Generate Music" pressed, up to the call of generate_music
MainClick ==
    /\ pc = "idle"
    /\ \E h \in HeartRates, m \in {None} \cup {Some([out_len |-> n]) : n \in OutLens} :
          /\ heart_rate' = h
          /\ IF m = None
             THEN /\ model' = None
                  /\ pc' = "done"
                  /\ UNCHANGED <<caller, temperature, sequence_length, seed_arg, seed,
                                 seed0, generated, sampled, i, rng>>
             ELSE LET params == get_music_params_from_heart_rate(h)
                  IN Enter("main", m[1], params[1], params[2], None)
    /\ UNCHANGED <<x_pred, calls, returned, note_sequence, midi, saved, offered, error,
                   preds, outcome>>

\* generate_music returned to main: assemble the track, save it, offer the download
MainFinish ==
    /\ pc = "returned"
    /\ caller = "main"
    /\ note_sequence' = returned[1]
    /\ midi' = Some(sequence_to_midi(returned[1], DefaultTempo))
    /\ saved' = TRUE
    /\ offered' = TRUE
    /\ pc' = "done"
    /\ UNCHANGED <<caller, heart_rate, model, temperature, sequence_length, seed_arg,
                   seed, generated, i, x_pred, calls, returned, error, rng, preds,
                   outcome, seed0, sampled>>

\* ------------------------------------------------------------ specifications

\* The application: main's button handler, and generate_music called on its own.
Init ==
    /\ pc = "idle"
    /\ caller = "none"
    /\ heart_rate = 0
    /\ model = None
    /\ temperature = 0
    /\ sequence_length = 0
    /\ seed_arg = None
    /\ seed = <<>>
    /\ generated = <<>>
    /\ i = 0
    /\ x_pred = None
    /\ calls = 0
    /\ returned = None
    /\ note_sequence = <<>>
    /\ midi = None
    /\ saved = FALSE
    /\ offered = FALSE
    /\ error = "none"
    /\ rng \in 0..(RngModulus - 1)
    /\ preds = <<>>
    /\ outcome = None
    /\ seed0 = <<>>
    /\ sampled = <<>>

Next ==
    \/ MainClick
    \/ DirectCall
    \/ EncodeFails
    \/ CallPredict
    \/ PredictReturn
    \/ PredictRaise
    \/ Return
    \/ MainFinish

Spec == Init /\ [][Next]_vars


\* ---- the parameter mapper on its own: every heart rate main's input admits

InitParams ==
    /\ pc = "params_ready"
    /\ heart_rate \in MinHeartRate..MaxHeartRate
    /\ caller = "none"
    /\ model = None
    /\ temperature = 0
    /\ sequence_length = 0
    /\ seed_arg = None
    /\ seed = <<>>
    /\ generated = <<>>
    /\ i = 0
    /\ x_pred = None
    /\ calls = 0
    /\ returned = None
    /\ note_sequence = <<>>
    /\ midi = None
    /\ saved = FALSE
    /\ offered = FALSE
    /\ error = "none"
    /\ rng = 0
    /\ preds = <<>>
    /\ outcome = None
    /\ seed0 = <<>>
    /\ sampled = <<>>

\* temperature, sequence_length = get_music_params_from_heart_rate(heart_rate)
MapParams ==
    /\ pc = "params_ready"
    /\ temperature' = get_music_params_from_heart_rate(heart_rate)[1]
    /\ sequence_length' = get_music_params_from_heart_rate(heart_rate)[2]
    /\ pc' = "params_done"
    /\ UNCHANGED <<caller, heart_rate, model, seed_arg, seed, generated, i, x_pred,
                   calls, returned, note_sequence, midi, saved, offered, error, rng,
                   preds, outcome, seed0, sampled>>

NextParams == MapParams

SpecParams == InitParams /\ [][NextParams]_vars

\* ---- sequence_to_midi on its own: every note sequence of up to MaxNotes tokens

NoteSequences == UNION {[1..n -> MidiTokens] : n \in 0..MaxNotes}

InitMidi ==
    /\ pc = "midi_ready"
    /\ note_sequence \in NoteSequences
    /\ caller = "none"
    /\ heart_rate = 0
    /\ model = None
    /\ temperature = 0
    /\ sequence_length = 0
    /\ seed_arg = None
    /\ seed = <<>>
    /\ generated = <<>>
    /\ i = 0
    /\ x_pred = None
    /\ calls = 0
    /\ returned = None
    /\ midi = None
    /\ saved = FALSE
    /\ offered = FALSE
    /\ error = "none"
    /\ rng = 0
    /\ preds = <<>>
    /\ outcome = None
    /\ seed0 = <<>>
    /\ sampled = <<>>

\* midi = sequence_to_midi(note_sequence)
AssembleTrack ==
    /\ pc = "midi_ready"
    /\ midi' = Some(sequence_to_midi(note_sequence, DefaultTempo))
    /\ pc' = "midi_done"
    /\ UNCHANGED <<caller, heart_rate, model, temperature, sequence_length, seed_arg,
                   seed, generated, i, x_pred, calls, returned, note_sequence, saved,
                   offered, error, rng, preds, outcome, seed0, sampled>>

NextMidi == AssembleTrack

SpecMidi == InitMidi /\ [][NextMidi]_vars

\* ---- sample on its own: temperatures of both signs and zero

\* distributions handed to sample: uniform, one-hot, skewed
SampleDists == {<<1, 1>>, <<0, 1, 0>>, <<7, 2, 1, 0>>}

InitSample ==
    /\ pc = "sample_ready"
    /\ preds \in SampleDists
    /\ temperature \in (-MaxTemp)..MaxTemp
    /\ rng \in 0..(RngModulus - 1)
    /\ caller = "none"
    /\ heart_rate = 0
    /\ model = None
    /\ sequence_length = 0
    /\ seed_arg = None
    /\ seed = <<>>
    /\ generated = <<>>
    /\ i = 0
    /\ x_pred = None
    /\ calls = 0
    /\ returned = None
    /\ note_sequence = <<>>
    /\ midi = None
    /\ saved = FALSE
    /\ offered = FALSE
    /\ error = "none"
    /\ outcome = None
    /\ seed0 = <<>>
    /\ sampled = <<>>

\* sample(preds, temperature)
SampleCall ==
    /\ pc = "sample_ready"
    /\ \E o \in sample(preds, temperature, rng) : outcome' = Some(o)
    /\ rng' = NextRng(rng)
    /\ pc' = "sample_done"
    /\ UNCHANGED <<caller, heart_rate, model, temperature, sequence_length, seed_arg,
                   seed, generated, i, x_pred, calls, returned, note_sequence, midi,
                   saved, offered, error, preds, seed0, sampled>>

NextSample == SampleCall

SpecSample == InitSample /\ [][NextSample]_vars

\* ============================================================ properties

\* positions inside a run of generate_music
InLoop == pc \in {"loop", "predicting"}

\* C1: for every heart rate in 30..200 the mapper yields (0.5, 100) above 100,
\* (1.2, 50) below 60 and (0.8, 75) otherwise, 60 and 100 included in the middle
\* bucket; the result is a function of the heart rate alone.
C1_ParamsTable ==
    pc = "params_done" =>
        /\ heart_rate \in 101..200 => temperature = 5 /\ sequence_length = 100
        /\ heart_rate \in 30..59 => temperature = 12 /\ sequence_length = 50
        /\ heart_rate \in 60..100 => temperature = 8 /\ sequence_length = 75

C1_Witness ==
    /\ pc = "params_done"
    /\ heart_rate = 100
    /\ temperature = 8
    /\ sequence_length = 75

\* C2: whenever generate_music returns, the returned sequence has length
\* maxlen + sequence_length, whatever seed the caller passed.
C2_ReturnedLength ==
    returned # None => Len(returned[1]) = maxlen + sequence_length

\* C3: at every step of a run of generate_music the context window has length
\* maxlen, whatever seed the caller passed.
C3_WindowLength ==
    (InLoop \/ pc = "returned") => Len(seed) = maxlen

\* C4: the running output is append-only: a step leaves every earlier position as
\* it was, the output is always the initial window followed by the tokens sampled
\* so far in the order they were sampled, and the returned sequence is the initial
\* window followed by all sequence_length sampled tokens.
C4_AppendOnly ==
    [][/\ InLoop =>
            /\ Len(generated') >= Len(generated)
            /\ \A k \in 1..Len(generated) : generated'[k] = generated[k]
       /\ (pc' \in {"loop", "predicting", "returned"}) =>
            /\ generated' = seed0' \o sampled'
            /\ Len(sampled') = i'
       /\ pc' = "returned" =>
            /\ returned' = Some(seed0' \o sampled')
            /\ Len(sampled') = sequence_length']_vars

C4_Witness ==
    /\ pc = "returned"
    /\ Len(sampled) >= 2
    /\ sampled[1] # sampled[2]
    /\ returned = Some(seed0 \o sampled)

\* C5: when the predictor call fails at some step the run ends in an error, no
\* sequence is returned (no truncated one either), and main assembles, saves and
\* offers no MIDI.
C5_NoPartialResult ==
    error = "PredictorFailure" =>
        /\ pc = "error"
        /\ returned = None
        /\ midi = None
        /\ ~saved
        /\ ~offered

C5_Witness ==
    /\ error = "PredictorFailure"
    /\ caller = "main"
    /\ i >= 2
    /\ Len(generated) = maxlen + i
    /\ returned = None

\* tokens sequence_to_midi keeps
IsMidiPitch(note) == 0 <= note /\ note <= 127

\* C6: sequence_to_midi emits one note per token in 0..127, in input order, none for
\* another token; the n-th kept note (from 0) starts at n * duration, so a dropped
\* token takes no time slot and start times are strictly increasing, evenly spaced.
C6_KeptNotesEvenlySpaced ==
    pc = "midi_done" =>
        LET kept == SelectSeq(note_sequence, IsMidiPitch)
            notes == midi[1].notes
        IN /\ Len(notes) = Len(kept)
           /\ \A n \in 1..Len(notes) :
                /\ notes[n].pitch = kept[n]
                /\ notes[n].time = (n - 1) * duration
           /\ \A n \in 1..(Len(notes) - 1) :
                notes[n + 1].time = notes[n].time + duration

C6_Witness ==
    /\ pc = "midi_done"
    /\ note_sequence = <<60, 200, 64>>
    /\ Len(midi[1].notes) = 2
    /\ midi[1].notes[1].pitch = 60 /\ midi[1].notes[1].time = 0
    /\ midi[1].notes[2].pitch = 64 /\ midi[1].notes[2].time = 1

\* C7: sample fails with an error and returns no index whenever the temperature is
\* zero or negative, for every distribution.
C7_NonPositiveTemperatureFails ==
    (pc = "sample_done" /\ temperature <= 0) => ~outcome[1].ok

\* C8: in a run that completes the predictor is called exactly sequence_length
\* times, once per step and never two at once; the call of a step is issued only
\* after the previous step's token was sampled, appended and pushed into the
\* window, and its input holds that token in the window's last position.
C8_OneCallPerStep ==
    /\ pc = "returned" => calls = sequence_length
    /\ pc = "loop" => calls = i
    /\ pc = "predicting" =>
        /\ calls = i + 1
        /\ x_pred # None
        /\ Len(sampled) = i
        /\ i >= 1 =>
            /\ generated[Len(generated)] = sampled[i]
            /\ seed[Len(seed)] = sampled[i]
            /\ x_pred[1][Len(seed)] = {sampled[i]}

C8_Witness ==
    /\ pc = "predicting"
    /\ i = 2
    /\ calls = 3
    /\ x_pred[1][Len(seed)] = {sampled[2]}

\* C9: every window advance is first-in first-out, and so at every step the window
\* is the last maxlen elements of the running output.
C9_WindowIsOutputTail ==
    (InLoop \/ pc = "returned") =>
        /\ Len(generated) >= maxlen
        /\ seed = SubSeq(generated, Len(generated) - maxlen + 1, Len(generated))

\* The advance itself: the oldest element leaves, the sampled token enters last.
WindowAdvanceIsFifo ==
    [][(pc = "predicting" /\ pc' = "loop") =>
            /\ Len(seed') = Len(seed)
            /\ \A k \in 1..(Len(seed) - 1) : seed'[k] = seed[k + 1]
            /\ seed'[Len(seed')] = sampled'[Len(sampled')]]_vars

\* C10: in a run without a caller seed whose predictor returns distributions of
\* length vocab_size, every token of the window and of the running output is in
\* 0..vocab_size-1 at every step, sequence_to_midi drops nothing, and the track has
\* maxlen + sequence_length notes: 150 for heart rate 110.
C10_TokensInVocabulary ==
    (seed_arg = None /\ model = Some([out_len |-> vocab_size])) =>
        /\ \A k \in 1..Len(seed) : seed[k] \in 0..(vocab_size - 1)
        /\ \A k \in 1..Len(generated) : generated[k] \in 0..(vocab_size - 1)
        /\ midi # None =>
            /\ Len(midi[1].notes) = maxlen + sequence_length
            /\ heart_rate = 110 => Len(midi[1].notes) = 150

C10_Witness ==
    /\ midi # None
    /\ heart_rate = 110
    /\ model = Some([out_len |-> vocab_size])
    /\ Len(midi[1].notes) = 150

====
